---- MODULE Spec2Model ----
(***************************************************************************)
(* Session lifecycle of the transport driver app: the TimeTracking         *)
(* component (driver client), the sessions table it saves into through     *)
(* asynchronous requests, the administrator's session editor, the audit    *)
(* logger with the session_edit_history table, the deletion of users, and  *)
(* the session helper functions called on their own.                       *)
(*                                                                         *)
(* One driver and one calendar day are modelled, so user_id and date are   *)
(* left out of the records.  Timestamps are integers counted in ticks of   *)
(* the clock; a minute holds Gran ticks, and the HH:MM values of the       *)
(* break editor are whole minutes.  Odometer readings are integers in      *)
(* steps of the form inputs.  JavaScript null and undefined are Null.      *)
(***************************************************************************)
EXTENDS Integers, Sequences, FiniteSets, TLC

\* ------------------------------------------------------------- bounds
\* MaxTime caps the clock for the driver who waits for every result and for
\* the start form, AdminTime with the administrator's editor, RaceTime for
\* the hurried driver; MaxRush is the number of clicks the hurried driver
\* makes while a request is under way.
MaxTime == 4
AdminTime == 3
RaceTime == 6
MaxBreaks == 3
MaxSessions == 2
MaxInFlight == 2
MaxRush == 1
MaxHistory == 2
Gran == 2

\* ------------------------------------------------------------- limits
MaxCount == 9999

MaxMileage == 9999999

\* ------------------------------------------------------------- values
Null == -1

NoRoute == "null"

NoSession ==
  [id |-> Null]

NoForm ==
  [route_number |-> ""]

NoOutput ==
  [of |-> "none"]

\* The users table when the driver's component is mounted: the default
\* administrator and the driver who is logged in; driver2 is not created
\* yet.
UserIds == {"admin", "driver", "driver2"}

InitialUsers ==
  [u \in UserIds |-> IF u = "driver2" THEN "none" ELSE "present"]

\* The values a type="time" input can hold: empty (Null) or a whole minute.
TimeInputs(maxT) == {Null} \cup {m \in 0..maxT : m * Gran <= maxT}

\* What the driver can type into the forms.  Negative counters and an
\* ending reading below the starting one are included although the inputs
\* carry min attributes: the handlers are checked against them as well.
StartKmInputs == {Null, 1}

EndKmInputs == {Null, 0, 2}

DeliveryInputs == {<<0, 0>>, <<2, 1>>, <<0, -2>>}

PickupInputs == {<<0, 0>>, <<1, 0>>, <<-2, 0>>}

RouteInputs == {"R1"}

AdminRouteInputs == {"R2"}

\* ------------------------------------------------------------- helpers
\* formatTimeForInput: the HH:MM of a timestamp, seconds dropped.
formatTimeForInput(iso) ==
  IF iso = Null THEN Null ELSE iso \div Gran

\* timeInputToISO: HH:MM on the session's date, seconds and ms zero.
timeInputToISO(timeValue) ==
  IF timeValue = Null THEN Null ELSE timeValue * Gran

\* parseInt(value) || 0: a counter that is missing counts as zero.
CountOf(value) == IF value = Null THEN 0 ELSE value

\* calculateTotals with the counters summed as they are.
calculateTotals_RawCounters(session) ==
  [session EXCEPT
     !.deliveries = session.positive_deliveries + session.negative_deliveries,
     !.pickups = session.positive_pickups + session.negative_pickups,
     !.total_km = IF session.end_km # Null /\ session.start_km # Null
                  THEN session.end_km - session.start_km
                  ELSE Null]

\* calculateTotals with a reading of 0 taken for a missing one.
calculateTotals_Truthy(session) ==
  [session EXCEPT
     !.deliveries = CountOf(session.positive_deliveries)
                    + CountOf(session.negative_deliveries),
     !.pickups = CountOf(session.positive_pickups)
                 + CountOf(session.negative_pickups),
     !.total_km = IF session.end_km \notin {Null, 0}
                     /\ session.start_km \notin {Null, 0}
                  THEN session.end_km - session.start_km
                  ELSE Null]

\* calculateTotals: the session with its derived totals recomputed.
calculateTotals(session) ==
  [session EXCEPT
     !.deliveries = CountOf(session.positive_deliveries)
                    + CountOf(session.negative_deliveries),
     !.pickups = CountOf(session.positive_pickups)
                 + CountOf(session.negative_pickups),
     !.total_km = IF session.end_km # Null /\ session.start_km # Null
                  THEN session.end_km - session.start_km
                  ELSE Null]

\* The instant a timestamp names, in ticks from the start of the day;
\* new Date(null) is the epoch, DayStart ticks before it.
DayStart == 1000

DateOf(iso) == IF iso = Null THEN 0 - DayStart ELSE iso

\* The reduce of calculateTimeMetrics: a break that has an end adds the
\* distance from its start to its end.
RECURSIVE BreakTimeSum(_)
BreakTimeSum(breaks) ==
  IF breaks = << >> THEN 0
  ELSE (IF Head(breaks).end # Null
        THEN DateOf(Head(breaks).end) - DateOf(Head(breaks).start)
        ELSE 0)
       + BreakTimeSum(Tail(breaks))

\* calculateTimeMetrics, in ticks instead of hours.
calculateTimeMetrics(session) ==
  IF session.start_time = Null \/ session.end_time = Null
  THEN [totalTime |-> 0, breakTime |-> 0, workTime |-> 0]
  ELSE LET totalTime == session.end_time - session.start_time
           breakTime == BreakTimeSum(session.breaks)
       IN [totalTime |-> totalTime,
           breakTime |-> breakTime,
           workTime |-> totalTime - breakTime]

\* validateSession, check by check.  Each error is a tuple: its kind and
\* the 1-indexed break positions it names.
\* MileageErrors with equal readings refused as well.
MileageErrors_Strict(s) ==
  IF s.end_km # Null /\ s.start_km # Null /\ s.end_km <= s.start_km
  THEN << <<"mileage">> >> ELSE << >>

MileageErrors(s) ==
  IF s.end_km # Null /\ s.start_km # Null /\ s.end_km < s.start_km
  THEN << <<"mileage">> >> ELSE << >>

CountErrors(s) ==
  (IF CountOf(s.positive_deliveries) < 0 \/ CountOf(s.negative_deliveries) < 0
   THEN << <<"deliveries">> >> ELSE << >>)
  \o
  (IF CountOf(s.positive_pickups) < 0 \/ CountOf(s.negative_pickups) < 0
   THEN << <<"pickups">> >> ELSE << >>)

BreakErrorsAt(s, idx) ==
  LET brk == s.breaks[idx] IN
  IF brk.start # Null /\ brk.end # Null
  THEN (IF brk.end <= brk.start THEN << <<"order", idx>> >> ELSE << >>)
       \o
       (IF s.start_time # Null /\ s.end_time # Null
           /\ (brk.start < s.start_time \/ brk.end > s.end_time)
        THEN << <<"period", idx>> >> ELSE << >>)
  ELSE << >>

RECURSIVE BreakLoopErrors(_, _)
BreakLoopErrors(s, idx) ==
  IF idx > Len(s.breaks) THEN << >>
  ELSE BreakErrorsAt(s, idx) \o BreakLoopErrors(s, idx + 1)

\* OverlapErrorAt comparing the starts of the two breaks.
OverlapErrorAt_Starts(s, i) ==
  LET currentBreak == s.breaks[i]
      nextBreak == s.breaks[i + 1] IN
  IF currentBreak.start # Null /\ nextBreak.start # Null
     /\ currentBreak.start > nextBreak.start
  THEN << <<"overlap", i, i + 1>> >> ELSE << >>

OverlapErrorAt(s, i) ==
  LET currentBreak == s.breaks[i]
      nextBreak == s.breaks[i + 1] IN
  IF currentBreak.end # Null /\ nextBreak.start # Null
     /\ currentBreak.end > nextBreak.start
  THEN << <<"overlap", i, i + 1>> >> ELSE << >>

RECURSIVE OverlapLoopErrors(_, _)
OverlapLoopErrors(s, i) ==
  IF i > Len(s.breaks) - 1 THEN << >>
  ELSE OverlapErrorAt(s, i) \o OverlapLoopErrors(s, i + 1)

validateSession(sessionData) ==
  MileageErrors(sessionData) \o CountErrors(sessionData)
  \o BreakLoopErrors(sessionData, 1) \o OverlapLoopErrors(sessionData, 1)

\* validateBreakTimeEdit: the verdict on the edit of one bound of a break,
\* as the record { isValid, error } of the source. breakIndex is 1-indexed
\* here; field is "start" or "end"; the error is a tuple, << >> for none,
\* and <<"overlap", i>> names the first break the loop finds in conflict.
EditedBreak(breaks, breakIndex, field, newTime) ==
  IF field = "start"
  THEN [breaks[breakIndex] EXCEPT !.start = timeInputToISO(newTime)]
  ELSE [breaks[breakIndex] EXCEPT !.end = timeInputToISO(newTime)]

\* EditConflicts comparing the edited break with its neighbours only.
EditConflicts_Neighbours(breaks, breakIndex, updatedBreak) ==
  {i \in 1..Len(breaks) :
     /\ i \in {breakIndex - 1, breakIndex + 1}
     /\ breaks[i].start # Null /\ breaks[i].end # Null
     /\ updatedBreak.start # Null /\ updatedBreak.end # Null
     /\ updatedBreak.start < breaks[i].end
     /\ updatedBreak.end > breaks[i].start}

EditConflicts(breaks, breakIndex, updatedBreak) ==
  {i \in 1..Len(breaks) :
     /\ i # breakIndex
     /\ breaks[i].start # Null /\ breaks[i].end # Null
     /\ updatedBreak.start # Null /\ updatedBreak.end # Null
     /\ updatedBreak.start < breaks[i].end
     /\ updatedBreak.end > breaks[i].start}

EditOverlaps(breaks, breakIndex, updatedBreak) ==
  EditConflicts(breaks, breakIndex, updatedBreak) # {}

FirstConflict(breaks, breakIndex, updatedBreak) ==
  LET conflicts == EditConflicts(breaks, breakIndex, updatedBreak)
  IN CHOOSE i \in conflicts : \A j \in conflicts : i <= j

\* BreakEditError without the comparison with the work period.
BreakEditError_AnyPeriod(breaks, breakIndex, field, newTime, session) ==
  IF newTime = Null THEN <<"required">>
  ELSE IF breakIndex \notin 1..Len(breaks) THEN <<"not-found">>
  ELSE
    LET updatedBreak == EditedBreak(breaks, breakIndex, field, newTime)
    IN IF /\ updatedBreak.start # Null /\ updatedBreak.end # Null
          /\ updatedBreak.end <= updatedBreak.start
       THEN <<"order">>
       ELSE IF EditOverlaps(breaks, breakIndex, updatedBreak)
       THEN <<"overlap", FirstConflict(breaks, breakIndex, updatedBreak)>>
       ELSE << >>

BreakEditError(breaks, breakIndex, field, newTime, session) ==
  IF newTime = Null THEN <<"required">>
  ELSE IF breakIndex \notin 1..Len(breaks) THEN <<"not-found">>
  ELSE
    LET updatedBreak == EditedBreak(breaks, breakIndex, field, newTime)
        newTimeDate == IF field = "start" THEN updatedBreak.start
                       ELSE updatedBreak.end
    IN IF /\ updatedBreak.start # Null /\ updatedBreak.end # Null
          /\ updatedBreak.end <= updatedBreak.start
       THEN <<"order">>
       ELSE IF /\ session.start_time # Null /\ session.end_time # Null
               /\ (newTimeDate < session.start_time
                   \/ newTimeDate > session.end_time)
       THEN <<"period">>
       ELSE IF EditOverlaps(breaks, breakIndex, updatedBreak)
       THEN <<"overlap", FirstConflict(breaks, breakIndex, updatedBreak)>>
       ELSE << >>

validateBreakTimeEdit(breaks, breakIndex, field, newTime, session) ==
  LET error == BreakEditError(breaks, breakIndex, field, newTime, session)
  IN [isValid |-> error = << >>, error |-> error]

\* ------------------------------------------------------------- state
VARIABLES
  now,               \* the clock, new Date()
  sessions,          \* the sessions table: row i has id i
  status,            \* TimeTracking: useState('not-started')
  currentSession,    \* TimeTracking: useState(null)
  showStartForm,
  showEndDayForm,
  editingBreak,      \* 1-indexed position of the break being edited, or Null
  validationErrors,
  requests,          \* requests sent and not yet handled by the backend
  responses,         \* results on their way back to the component
  rush,              \* clicks the driver may still make without waiting
  lastRead,          \* the last value a handler read from the clock
  before,            \* status and session when the last save was asked for
  adminSession,      \* AdminSessionEditor: the session prop, or NoSession
  formData,          \* AdminSessionEditor: the form state
  adminErrors,       \* AdminSessionEditor: validationErrors
  users,             \* the users table: what became of each user id
  history,           \* the session_edit_history table
  logged,            \* how the last call of the audit logger came back
  calcInput,         \* the session handed to a session helper, or NoSession
  calcOutput         \* what the helper returned for it

vars ==
  <<now, sessions, status, currentSession, showStartForm, showEndDayForm,
    editingBreak, validationErrors, requests, responses, rush, lastRead,
    before,
    adminSession, formData, adminErrors,
    users, history, logged, calcInput, calcOutput>>

admin == <<adminSession, formData, adminErrors>>

audit == <<users, history, logged>>

calc == <<calcInput, calcOutput>>

ui == <<status, currentSession, showStartForm, showEndDayForm, editingBreak>>

InFlight == Len(requests) + Len(responses)

\* The requests of the driver's component that have not come back yet.
Waiting ==
  Cardinality({i \in 1..Len(requests) : requests[i].op # "admin"})
  + Cardinality({j \in 1..Len(responses) : responses[j].op # "admin"})

PendingInserts ==
  Cardinality({i \in 1..Len(requests) : requests[i].kind = "insert"})

RemoveAt(seq, i) == SubSeq(seq, 1, i - 1) \o SubSeq(seq, i + 1, Len(seq))

LoadRequest == [kind |-> "load", op |-> "load", payload |-> NoSession]

Init ==
  /\ now = 0
  /\ sessions = << >>
  /\ status = "not-started"
  /\ currentSession = NoSession
  /\ showStartForm = FALSE
  /\ showEndDayForm = FALSE
  /\ editingBreak = Null
  /\ validationErrors = << >>
  /\ requests = << LoadRequest >>
  /\ responses = << >>
  /\ rush = 0
  /\ lastRead = Null
  /\ before = <<"not-started", NoSession>>
  /\ adminSession = NoSession
  /\ formData = NoForm
  /\ adminErrors = << >>
  /\ users = InitialUsers
  /\ history = << >>
  /\ logged = "none"
  /\ calcInput = NoSession
  /\ calcOutput = NoOutput

\* The same, for a driver who does not always wait.
InitRace ==
  /\ now = 0
  /\ sessions = << >>
  /\ status = "not-started"
  /\ currentSession = NoSession
  /\ showStartForm = FALSE
  /\ showEndDayForm = FALSE
  /\ editingBreak = Null
  /\ validationErrors = << >>
  /\ requests = << LoadRequest >>
  /\ responses = << >>
  /\ rush = MaxRush
  /\ lastRead = Null
  /\ before = <<"not-started", NoSession>>
  /\ adminSession = NoSession
  /\ formData = NoForm
  /\ adminErrors = << >>
  /\ users = InitialUsers
  /\ history = << >>
  /\ logged = "none"
  /\ calcInput = NoSession
  /\ calcOutput = NoOutput

\* ------------------------------------------------------------- saving
\* SaveRequest with the totals left as the session carries them.
SaveRequest_StaleTotals(session, op) ==
  [kind |-> IF session.id # Null THEN "update" ELSE "insert",
   op |-> op,
   payload |-> session]

\* The request saveSession sends for a session that passed validation:
\* the record with its totals recomputed, as an update of the row with the
\* session's id, or as an insert when the id is a temp- placeholder.
SaveRequest(session, op) ==
  [kind |-> IF session.id # Null THEN "update" ELSE "insert",
   op |-> op,
   payload |-> calculateTotals(session)]

\* saveSession without the check of validateSession's list.
saveSession_Unchecked(session, op) ==
  /\ InFlight < MaxInFlight
  /\ validationErrors' = << >>
  /\ requests' = Append(requests, SaveRequest(session, op))

\* saveSession up to its await: validation, then the request.
saveSession(session, op) ==
  LET errors == validateSession(session) IN
  IF Len(errors) > 0
  THEN /\ validationErrors' = errors
       /\ UNCHANGED requests
  ELSE /\ InFlight < MaxInFlight
       /\ validationErrors' = << >>
       /\ requests' = Append(requests, SaveRequest(session, op))

\* ------------------------------------------------------------- driver
\* Every click: made when no request is under way, or else out of the
\* driver's allowance of hurried clicks.
Patience ==
  IF Waiting = 0 THEN rush' = rush
  ELSE rush > 0 /\ rush' = rush - 1

Click ==
  /\ Patience
  /\ UNCHANGED <<admin, audit, calc, lastRead, before>>

\* A click whose handler reads the clock and then saves.  The clock has
\* millisecond resolution: two handlers never read the same value.
ClickNow ==
  /\ Patience
  /\ now > lastRead
  /\ lastRead' = now
  /\ before' = <<status, currentSession>>
  /\ UNCHANGED <<admin, audit, calc>>

Tick(maxT) ==
  /\ now < maxT
  /\ now' = now + 1
  /\ UNCHANGED <<sessions, ui, validationErrors, requests, responses, rush,
                 lastRead, before, admin, audit, calc>>

handleStartWork ==
  /\ Click
  /\ status = "not-started"
  /\ showStartForm' = TRUE
  /\ UNCHANGED <<now, sessions, status, currentSession, showEndDayForm,
                 editingBreak, validationErrors, requests, responses>>

cancelStartForm ==
  /\ Click
  /\ showStartForm
  /\ showStartForm' = FALSE
  /\ UNCHANGED <<now, sessions, status, currentSession, showEndDayForm,
                 editingBreak, validationErrors, requests, responses>>

NewSession(startKm) ==
  [id |-> Null,
   status |-> "working",
   start_time |-> now,
   end_time |-> Null,
   route_number |-> NoRoute,
   positive_deliveries |-> 0,
   negative_deliveries |-> 0,
   positive_pickups |-> 0,
   negative_pickups |-> 0,
   deliveries |-> Null,
   pickups |-> Null,
   start_km |-> startKm,
   end_km |-> Null,
   total_km |-> Null,
   breaks |-> << >>]

submitStartWork(startKm) ==
  /\ ClickNow
  /\ showStartForm
  /\ Len(sessions) + PendingInserts < MaxSessions
  /\ saveSession(NewSession(startKm), "start")
  /\ UNCHANGED <<now, sessions, ui, responses>>

StartedBreak(session) ==
  [session EXCEPT
     !.status = "on-break",
     !.breaks = Append(session.breaks, [start |-> now, end |-> Null])]

handleStartBreak ==
  /\ ClickNow
  /\ status = "working"
  /\ Len(currentSession.breaks) < MaxBreaks
  /\ saveSession(StartedBreak(currentSession), "startBreak")
  /\ UNCHANGED <<now, sessions, ui, responses>>

\* breaks[breaks.length - 1].end = now: the array is copied, the break
\* objects are not, so the break held by currentSession gets the end too.
EndLastBreak(breaks) ==
  [breaks EXCEPT ![Len(breaks)].end = now]

\* With no break at all the assignment throws and the handler stops.
handleEndBreak ==
  /\ ClickNow
  /\ status = "on-break"
  /\ Len(currentSession.breaks) > 0
  /\ LET breaks == EndLastBreak(currentSession.breaks)
         updated == [currentSession EXCEPT !.status = "working",
                                           !.breaks = breaks]
     IN /\ currentSession' = [currentSession EXCEPT !.breaks = breaks]
        /\ saveSession(updated, "endBreak")
  /\ UNCHANGED <<now, sessions, status, showStartForm, showEndDayForm,
                 editingBreak, responses>>

handleEndDay ==
  /\ Click
  /\ status = "working"
  /\ showEndDayForm' = TRUE
  /\ UNCHANGED <<now, sessions, status, currentSession, showStartForm,
                 editingBreak, validationErrors, requests, responses>>

cancelEndDayForm ==
  /\ Click
  /\ showEndDayForm
  /\ showEndDayForm' = FALSE
  /\ UNCHANGED <<now, sessions, status, currentSession, showStartForm,
                 editingBreak, validationErrors, requests, responses>>

EndedDay(session, routeNumber, del, pick, endKm) ==
  [session EXCEPT
     !.end_time = now,
     !.status = "ended",
     !.route_number = routeNumber,
     !.positive_deliveries = del[1],
     !.negative_deliveries = del[2],
     !.positive_pickups = pick[1],
     !.negative_pickups = pick[2],
     !.end_km = endKm]

submitEndDay(routeNumber, del, pick, endKm) ==
  /\ ClickNow
  /\ showEndDayForm
  /\ saveSession(EndedDay(currentSession, routeNumber, del, pick, endKm),
                 "endDay")
  /\ UNCHANGED <<now, sessions, ui, responses>>

\* The Edit button of a break row: shown for a completed break that is
\* not being edited, while the status is not ended.
startEditingBreak(idx) ==
  /\ Click
  /\ currentSession # NoSession
  /\ idx \in 1..Len(currentSession.breaks)
  /\ currentSession.breaks[idx].end # Null
  /\ status # "ended"
  /\ editingBreak # idx
  /\ editingBreak' = idx
  /\ UNCHANGED <<now, sessions, status, currentSession, showStartForm,
                 showEndDayForm, validationErrors, requests, responses>>

\* The Save and Cancel buttons are in the row of the break being edited.
EditRowShown ==
  /\ currentSession # NoSession
  /\ editingBreak \in 1..Len(currentSession.breaks)

cancelEditingBreak ==
  /\ Click
  /\ EditRowShown
  /\ editingBreak' = Null
  /\ UNCHANGED <<now, sessions, status, currentSession, showStartForm,
                 showEndDayForm, validationErrors, requests, responses>>

EditedSession(session, idx, editBreakStart, editBreakEnd) ==
  [session EXCEPT
     !.breaks[idx] = [start |-> timeInputToISO(editBreakStart),
                      end |-> timeInputToISO(editBreakEnd)]]

saveBreakEdit(editBreakStart, editBreakEnd) ==
  /\ Patience
  /\ before' = <<status, currentSession>>
  /\ UNCHANGED <<admin, audit, calc, lastRead>>
  /\ EditRowShown
  /\ IF /\ validateBreakTimeEdit(currentSession.breaks, editingBreak, "start",
                                 editBreakStart, currentSession).isValid
        /\ validateBreakTimeEdit(currentSession.breaks, editingBreak, "end",
                                 editBreakEnd, currentSession).isValid
     THEN saveSession(EditedSession(currentSession, editingBreak,
                                    editBreakStart, editBreakEnd),
                      "editBreak")
     ELSE UNCHANGED <<validationErrors, requests>>
  /\ UNCHANGED <<now, sessions, ui, responses>>

\* The driver leaves the Time Tracking tab and comes back, at a moment
\* when no request is under way: the component is mounted anew, with the
\* state of its useState calls, and loads today's session.
remount ==
  /\ InFlight = 0
  /\ status' = "not-started"
  /\ currentSession' = NoSession
  /\ showStartForm' = FALSE
  /\ showEndDayForm' = FALSE
  /\ editingBreak' = Null
  /\ validationErrors' = << >>
  /\ requests' = << LoadRequest >>
  /\ UNCHANGED <<now, sessions, responses, rush, lastRead, before, admin,
                 audit, calc>>

\* ------------------------------------------------------------- backend
OpenRows == {i \in 1..Len(sessions) : sessions[i].end_time = Null}

\* .single(): the one matching row, or an error for none or several.
LoadResult ==
  IF Cardinality(OpenRows) = 1
  THEN [op |-> "load", ok |-> TRUE,
        data |-> sessions[CHOOSE i \in OpenRows : TRUE]]
  ELSE [op |-> "load", ok |-> FALSE, data |-> NoSession]

InsertedRow(payload) == [payload EXCEPT !.id = Len(sessions) + 1]

\* The sessions table takes an insert for a user that exists (user_id
\* references users) and an update of a row that exists (.single()).
Accepts(req) ==
  CASE req.kind = "load" -> TRUE
    [] req.kind = "insert" -> users["driver"] = "present"
    [] req.kind = "update" -> req.payload.id \in 1..Len(sessions)

\* UpdatedRow keeping the breaks of the stored row when it holds more of
\* them than the record sent.
UpdatedRow_KeepBreaks(row, sessionWithTotals) ==
  IF Len(row.breaks) > Len(sessionWithTotals.breaks)
  THEN [sessionWithTotals EXCEPT !.breaks = row.breaks]
  ELSE sessionWithTotals

\* update(sessionWithTotals).eq('id', session.id): every column of the row
\* is set from the record sent, whatever the row holds.
UpdatedRow(row, sessionWithTotals) == sessionWithTotals

BackendHandle(i) ==
  /\ i \in 1..Len(requests)
  /\ Accepts(requests[i])
  /\ LET req == requests[i] IN
     /\ requests' = RemoveAt(requests, i)
     /\ CASE req.kind = "load" ->
               /\ responses' = Append(responses, LoadResult)
               /\ UNCHANGED sessions
          [] req.kind = "insert" ->
               /\ sessions' = Append(sessions, InsertedRow(req.payload))
               /\ responses' = Append(responses,
                     [op |-> req.op, ok |-> TRUE,
                      data |-> InsertedRow(req.payload)])
          [] req.kind = "update" ->
               /\ sessions' = [sessions EXCEPT ![req.payload.id] =
                                 UpdatedRow(sessions[req.payload.id],
                                            req.payload)]
               /\ responses' = Append(responses,
                     [op |-> req.op, ok |-> TRUE, data |-> req.payload])
  /\ UNCHANGED <<now, ui, validationErrors, rush, lastRead, before, admin,
                 audit, calc>>

\* A transport or database failure, or a request the table does not
\* accept: the write does not happen.
BackendFail(i) ==
  /\ i \in 1..Len(requests)
  /\ requests' = RemoveAt(requests, i)
  /\ responses' = Append(responses,
        [op |-> requests[i].op, ok |-> FALSE, data |-> NoSession])
  /\ UNCHANGED <<now, sessions, ui, validationErrors, rush, lastRead,
                 before, admin, audit, calc>>

\* ------------------------------------------------------------- results
\* What runs after the await, for a result that arrived.
StatusAfter(op) ==
  CASE op = "start" -> "working"
    [] op = "startBreak" -> "on-break"
    [] op = "endBreak" -> "working"
    [] op = "endDay" -> "ended"
    [] op = "editBreak" -> status

Deliver(j) ==
  /\ j \in 1..Len(responses)
  /\ responses[j].op # "admin"
  /\ responses' = RemoveAt(responses, j)
  /\ LET res == responses[j] IN
     IF res.ok
     THEN /\ currentSession' = res.data
          /\ status' = IF res.op = "load" THEN res.data.status
                       ELSE StatusAfter(res.op)
          /\ showStartForm' = IF res.op = "start" THEN FALSE
                              ELSE showStartForm
          /\ showEndDayForm' = IF res.op = "endDay" THEN FALSE
                               ELSE showEndDayForm
          /\ editingBreak' = IF res.op = "editBreak" THEN Null
                             ELSE editingBreak
     ELSE UNCHANGED ui
  /\ UNCHANGED <<now, sessions, validationErrors, requests, rush, lastRead,
                 before, admin, audit, calc>>

\* ------------------------------------------------------------- audit
\* The values the audit logger is handed: JavaScript null, undefined,
\* numbers and strings.  Two values are === when type and content agree.
JsNull == [t |-> "null", n |-> 0, s |-> ""]

JsUndefined == [t |-> "undefined", n |-> 0, s |-> ""]

JsNumber(n) == [t |-> "number", n |-> n, s |-> ""]

JsString(s) == [t |-> "string", n |-> 0, s |-> s]

\* value ? ... : ...
Truthy(v) ==
  \/ v.t = "number" /\ v.n # 0
  \/ v.t = "string" /\ v.s # ""

\* value ? String(value) : null, as a TEXT column holds it.
SqlNull == [null |-> TRUE, text |-> ""]

TextOf(v) ==
  IF ~Truthy(v) THEN SqlNull
  ELSE [null |-> FALSE,
        text |-> IF v.t = "number" THEN ToString(v.n) ELSE v.s]

\* The row of session_edit_history for one change.
EditRow(sessionId, change, editedBy) ==
  [session_id |-> sessionId,
   field_name |-> change.fieldName,
   old_value |-> TextOf(change.oldValue),
   new_value |-> TextOf(change.newValue),
   edited_by |-> editedBy]

\* logMultipleSessionEdits: the rows for the changes whose values are not
\* ===, in the order of the changes.
RECURSIVE EditRows(_, _, _)
EditRows(sessionId, changes, editedBy) ==
  IF changes = << >> THEN << >>
  ELSE (IF Head(changes).oldValue # Head(changes).newValue
        THEN << EditRow(sessionId, Head(changes), editedBy) >>
        ELSE << >>)
       \o EditRows(sessionId, Tail(changes), editedBy)

\* ------------------------------------------------------------- admin
\* JavaScript's x || '' on a number: 0 and null both give the empty input.
OrEmpty(v) == IF v = Null \/ v = 0 THEN Null ELSE v

\* The useEffect that fills the form from the session prop.
FormOf(session) ==
  [route_number |-> IF session.route_number = NoRoute THEN ""
                    ELSE session.route_number,
   positive_deliveries |-> OrEmpty(session.positive_deliveries),
   negative_deliveries |-> OrEmpty(session.negative_deliveries),
   positive_pickups |-> OrEmpty(session.positive_pickups),
   negative_pickups |-> OrEmpty(session.negative_pickups),
   start_km |-> OrEmpty(session.start_km),
   end_km |-> OrEmpty(session.end_km),
   start_time |-> formatTimeForInput(session.start_time),
   end_time |-> formatTimeForInput(session.end_time),
   breaks |-> session.breaks]

\* formData.key for a text field and for a numeric field: undefined when
\* the form has no such key.
TextField(form, key) == IF key \in DOMAIN form THEN form[key] ELSE NoRoute

NumberField(form, key) == IF key \in DOMAIN form THEN form[key] ELSE Null

validateRouteNumber(routeNumber) ==
  routeNumber # NoRoute /\ routeNumber # ""

validateNumericInput(value) ==
  IF value = Null THEN [isValid |-> TRUE, value |-> 0]
  ELSE IF value < 0 \/ value > MaxCount
       THEN [isValid |-> FALSE, value |-> 0]
       ELSE [isValid |-> TRUE, value |-> value]

validateMileageInput(value) ==
  IF value = Null THEN [isValid |-> TRUE, value |-> Null]
  ELSE IF value < 0 \/ value > MaxMileage
       THEN [isValid |-> FALSE, value |-> Null]
       ELSE [isValid |-> TRUE, value |-> value]

\* validateEndOfDayForm reads the camelCase keys of the driver's form.
EndOfDayErrors(form) ==
  (IF validateRouteNumber(TextField(form, "routeNumber"))
   THEN << >> ELSE << <<"route">> >>)
  \o (IF validateNumericInput(NumberField(form, "positiveDeliveries")).isValid
      THEN << >> ELSE << <<"positiveDeliveries">> >>)
  \o (IF validateNumericInput(NumberField(form, "negativeDeliveries")).isValid
      THEN << >> ELSE << <<"negativeDeliveries">> >>)
  \o (IF validateNumericInput(NumberField(form, "positivePickups")).isValid
      THEN << >> ELSE << <<"positivePickups">> >>)
  \o (IF validateNumericInput(NumberField(form, "negativePickups")).isValid
      THEN << >> ELSE << <<"negativePickups">> >>)
  \o (IF validateMileageInput(NumberField(form, "endKm")).isValid
      THEN << >> ELSE << <<"endKm">> >>)
  \o (LET startKm == NumberField(form, "startKm")
          endKm == validateMileageInput(NumberField(form, "endKm")).value
      IN IF startKm # Null /\ startKm # 0 /\ endKm # Null /\ endKm # 0
            /\ validateMileageInput(startKm).isValid
            /\ validateMileageInput(startKm).value >= endKm
         THEN << <<"mileage">> >> ELSE << >>)

\* The session with cleanData and the form's times and breaks laid over it.
AdminUpdated(session, form) ==
  [session EXCEPT
     !.route_number = TextField(form, "routeNumber"),
     !.positive_deliveries =
        validateNumericInput(NumberField(form, "positiveDeliveries")).value,
     !.negative_deliveries =
        validateNumericInput(NumberField(form, "negativeDeliveries")).value,
     !.positive_pickups =
        validateNumericInput(NumberField(form, "positivePickups")).value,
     !.negative_pickups =
        validateNumericInput(NumberField(form, "negativePickups")).value,
     !.end_km = validateMileageInput(NumberField(form, "endKm")).value,
     !.start_time = IF form.start_time # Null
                    THEN timeInputToISO(form.start_time)
                    ELSE session.start_time,
     !.end_time = IF form.end_time # Null
                  THEN timeInputToISO(form.end_time)
                  ELSE session.end_time,
     !.breaks = form.breaks]

\* The fields of a session and of cleanData as JavaScript values.
TextValue(s) == IF s = NoRoute THEN JsNull ELSE JsString(s)

NumberValue(n) == IF n = Null THEN JsNull ELSE JsNumber(n)

TimeValue(iso) == IF iso = Null THEN JsNull ELSE JsString(ToString(iso))

Change(fieldName, oldValue, newValue) ==
  IF oldValue # newValue
  THEN << [fieldName |-> fieldName,
           oldValue |-> oldValue, newValue |-> newValue] >>
  ELSE << >>

\* The changes handleSave collects for the audit log: the keys of
\* cleanData, then the two times when the form and the session both have
\* one, then the break list as JSON text.  The comments are not modelled.
AdminChanges(session, form) ==
  LET updated == AdminUpdated(session, form) IN
  Change("route_number", TextValue(session.route_number),
         TextValue(updated.route_number))
  \o Change("positive_deliveries", NumberValue(session.positive_deliveries),
            NumberValue(updated.positive_deliveries))
  \o Change("negative_deliveries", NumberValue(session.negative_deliveries),
            NumberValue(updated.negative_deliveries))
  \o Change("positive_pickups", NumberValue(session.positive_pickups),
            NumberValue(updated.positive_pickups))
  \o Change("negative_pickups", NumberValue(session.negative_pickups),
            NumberValue(updated.negative_pickups))
  \o Change("end_km", NumberValue(session.end_km),
            NumberValue(updated.end_km))
  \o (IF form.start_time # Null /\ session.start_time # Null
      THEN Change("start_time", TimeValue(session.start_time),
                  TimeValue(timeInputToISO(form.start_time)))
      ELSE << >>)
  \o (IF form.end_time # Null /\ session.end_time # Null
      THEN Change("end_time", TimeValue(session.end_time),
                  TimeValue(timeInputToISO(form.end_time)))
      ELSE << >>)
  \o Change("breaks", JsString(ToString(session.breaks)),
            JsString(ToString(form.breaks)))

\* The editor is opened on a row of the sessions table.
adminOpen(i) ==
  /\ adminSession = NoSession
  /\ i \in 1..Len(sessions)
  /\ adminSession' = sessions[i]
  /\ formData' = FormOf(sessions[i])
  /\ adminErrors' = << >>
  /\ UNCHANGED <<now, sessions, ui, validationErrors, requests, responses,
                 rush, lastRead, before, audit, calc>>

onClose ==
  /\ adminSession # NoSession
  /\ adminSession' = NoSession
  /\ formData' = NoForm
  /\ adminErrors' = << >>
  /\ UNCHANGED <<now, sessions, ui, validationErrors, requests, responses,
                 rush, lastRead, before, audit, calc>>

\* handleInputChange: the field of the form is replaced and the error
\* list is cleared.
handleInputChange(field, value) ==
  /\ adminSession # NoSession
  /\ field \in DOMAIN formData
  /\ formData' = [formData EXCEPT ![field] = value]
  /\ adminErrors' = << >>
  /\ UNCHANGED <<now, sessions, ui, validationErrors, requests, responses,
                 rush, lastRead, before, adminSession, audit, calc>>

\* handleSave up to its await.  The answer to its update is not awaited
\* by any step of the editor here: the form check above it reads keys the
\* form does not have.
handleSave ==
  /\ adminSession # NoSession
  /\ LET formErrors == EndOfDayErrors(formData)
         updatedSession == AdminUpdated(adminSession, formData)
         sessionErrors == validateSession(updatedSession)
     IN IF Len(formErrors) > 0
        THEN /\ adminErrors' = formErrors
             /\ UNCHANGED requests
        ELSE IF Len(sessionErrors) > 0
        THEN /\ adminErrors' = sessionErrors
             /\ UNCHANGED requests
        ELSE /\ InFlight < MaxInFlight
             /\ adminErrors' = << >>
             /\ requests' = Append(requests,
                   [kind |-> "update", op |-> "admin",
                    payload |-> calculateTotals(updatedSession),
                    changes |-> AdminChanges(adminSession, formData)])
  /\ UNCHANGED <<now, sessions, ui, validationErrors, responses, rush,
                 lastRead, before, adminSession, formData, audit, calc>>

\* ------------------------------------------------------------- logger
\* The values and the change lists the audit logger is called with.
AuditValues ==
  {JsNull, JsUndefined, JsNumber(0), JsNumber(1), JsString(""),
   JsString("1"), JsString("R1"), JsString("R2")}

KmChanges ==
  [fieldName : {"end_km"},
   oldValue : {JsNull, JsNumber(0), JsNumber(1)},
   newValue : {JsNull, JsNumber(0), JsNumber(1)}]

ChangeLists ==
  {<<c>> : c \in KmChanges} \cup {<<c, d>> : c \in KmChanges, d \in KmChanges}

\* The insert into session_edit_history: taken when the backend answers
\* and every row references a session and a user that exist.
InsertEdits(rows, ok) ==
  IF /\ ok
     /\ \A k \in 1..Len(rows) :
          /\ rows[k].session_id \in 1..Len(sessions)
          /\ users[rows[k].edited_by] = "present"
  THEN history' = history \o rows /\ logged' = "ok"
  ELSE history' = history /\ logged' = "error"

\* logSessionEdit, called by an administrator; ok is whether the backend
\* answers the insert.
logSessionEdit(sessionId, fieldName, oldValue, newValue, ok) ==
  /\ Len(history) < MaxHistory
  /\ IF oldValue = newValue
     THEN history' = history /\ logged' = "skipped"
     ELSE InsertEdits(<< EditRow(sessionId,
                                 [fieldName |-> fieldName,
                                  oldValue |-> oldValue,
                                  newValue |-> newValue], "admin") >>, ok)
  /\ UNCHANGED <<now, sessions, ui, validationErrors, requests, responses,
                 rush, lastRead, before, admin, users, calc>>

logMultipleSessionEdits(sessionId, changes, ok) ==
  /\ Len(history) + Len(changes) <= MaxHistory
  /\ LET edits == EditRows(sessionId, changes, "admin") IN
     IF Len(edits) = 0
     THEN history' = history /\ logged' = "skipped"
     ELSE InsertEdits(edits, ok)
  /\ UNCHANGED <<now, sessions, ui, validationErrors, requests, responses,
                 rush, lastRead, before, admin, users, calc>>

\* ------------------------------------------------------------- users
createUser(u) ==
  /\ users[u] = "none"
  /\ users' = [users EXCEPT ![u] = "present"]
  /\ UNCHANGED <<now, sessions, ui, validationErrors, requests, responses,
                 rush, lastRead, before, admin, history, logged, calc>>

\* deleteUser: the delete is refused while a row of session_edit_history
\* names the user in edited_by; otherwise the user goes, and with the
\* driver the driver's sessions (ON DELETE CASCADE) and with each session
\* its rows of session_edit_history (ON DELETE CASCADE).
deleteUser(u) ==
  /\ users[u] = "present"
  /\ \A k \in 1..Len(history) : history[k].edited_by # u
  /\ users' = [users EXCEPT ![u] = "deleted"]
  /\ sessions' = IF u = "driver" THEN << >> ELSE sessions
  /\ history' = IF u = "driver" THEN << >> ELSE history
  /\ UNCHANGED <<now, ui, validationErrors, requests, responses, rush,
                 lastRead, before, admin, logged, calc>>

\* ------------------------------------------------------------- helpers
\* The sessions the helper functions are called with.
HelperSession(del, pick, km, times, breaks) ==
  [id |-> 1,
   status |-> IF times[2] = Null THEN "working" ELSE "ended",
   start_time |-> times[1],
   end_time |-> times[2],
   route_number |-> NoRoute,
   positive_deliveries |-> del[1],
   negative_deliveries |-> del[2],
   positive_pickups |-> pick[1],
   negative_pickups |-> pick[2],
   deliveries |-> Null,
   pickups |-> Null,
   start_km |-> km[1],
   end_km |-> km[2],
   total_km |-> Null,
   breaks |-> breaks]

BreakInputs == [start : {Null, 0, 2}, end : {Null, 1, 3}]

BreakLists ==
  {<< >>} \cup {<<b>> : b \in BreakInputs}
  \cup {<<b, c>> : b \in BreakInputs, c \in BreakInputs}

\* Counters and readings, present, zero and missing.
TotalsInputs ==
  {HelperSession(del, pick, km, <<1, Null>>, << >>) :
     del \in {Null, 0, 2} \X {Null, 0, 2},
     pick \in {Null, 0, 1} \X {Null, 0, 1},
     km \in {Null, 0, 2} \X {Null, 0, 2}}

\* Times and breaks, complete and not.
MetricsInputs ==
  {HelperSession(<<0, 0>>, <<0, 0>>, <<Null, Null>>, times, breaks) :
     times \in {Null, 1} \X {Null, 3}, breaks \in BreakLists}

\* Sessions that pass and that fail each check of validateSession.
ValidateInputs ==
  {HelperSession(del, pick, km, times, breaks) :
     del \in {<<0, 0>>, <<0, -2>>},
     pick \in {<<0, 0>>, <<-2, 0>>},
     km \in {<<Null, Null>>, <<0, 2>>, <<2, 0>>},
     times \in {<<1, Null>>, <<1, 3>>},
     breaks \in BreakLists}

\* Three breaks in any order, complete and not, in a work period that
\* holds them all.
TripleLists ==
  {<<b, c, d>> : b \in BreakInputs, c \in BreakInputs, d \in BreakInputs}

SequenceInputs ==
  {HelperSession(<<0, 0>>, <<0, 0>>, <<Null, Null>>, times, breaks) :
     times \in {<<0, Null>>, <<0, 4>>}, breaks \in TripleLists}

InitHelpers ==
  /\ now = 0
  /\ sessions = << >>
  /\ status = "not-started"
  /\ currentSession = NoSession
  /\ showStartForm = FALSE
  /\ showEndDayForm = FALSE
  /\ editingBreak = Null
  /\ validationErrors = << >>
  /\ requests = << >>
  /\ responses = << >>
  /\ rush = 0
  /\ lastRead = Null
  /\ before = <<"not-started", NoSession>>
  /\ adminSession = NoSession
  /\ formData = NoForm
  /\ adminErrors = << >>
  /\ users = InitialUsers
  /\ history = << >>
  /\ logged = "none"
  /\ calcInput \in TotalsInputs \cup MetricsInputs \cup ValidateInputs
                   \cup SequenceInputs
  /\ calcOutput = NoOutput

\* A helper is called on the session; the call changes nothing else.
Returned(helper, value) ==
  /\ calcOutput' = [of |-> helper, value |-> value]
  /\ UNCHANGED <<now, sessions, ui, validationErrors, requests, responses,
                 rush, lastRead, before, admin, audit, calcInput>>

callCalculateTotals ==
  /\ calcInput # NoSession
  /\ Returned("calculateTotals", calculateTotals(calcInput))

callCalculateTimeMetrics ==
  /\ calcInput # NoSession
  /\ Returned("calculateTimeMetrics", calculateTimeMetrics(calcInput))

callValidateSession ==
  /\ calcInput # NoSession
  /\ Returned("validateSession", validateSession(calcInput))

\* ------------------------------------------------------------- steps
\* The driver waits for the result of every request (rush = 0).
Next ==
  \/ Tick(MaxTime)
  \/ handleStartWork
  \/ cancelStartForm
  \/ \E startKm \in StartKmInputs : submitStartWork(startKm)
  \/ handleStartBreak
  \/ handleEndBreak
  \/ handleEndDay
  \/ cancelEndDayForm
  \/ \E r \in RouteInputs, del \in DeliveryInputs, pick \in PickupInputs,
        endKm \in EndKmInputs : submitEndDay(r, del, pick, endKm)
  \/ \E idx \in 1..MaxBreaks : startEditingBreak(idx)
  \/ cancelEditingBreak
  \/ \E s \in TimeInputs(MaxTime), e \in TimeInputs(MaxTime) :
        saveBreakEdit(s, e)
  \/ \E i \in 1..MaxInFlight : BackendHandle(i)
  \/ \E i \in 1..MaxInFlight : BackendFail(i)
  \/ \E j \in 1..MaxInFlight : Deliver(j)

Spec == Init /\ [][Next]_vars

\* The driver, and an administrator with the session editor open on a
\* row of the table.  The backend answers every request.
NextAdmin ==
  \/ Tick(AdminTime)
  \/ handleStartWork
  \/ \E startKm \in StartKmInputs : submitStartWork(startKm)
  \/ handleStartBreak
  \/ handleEndBreak
  \/ handleEndDay
  \/ \E r \in RouteInputs, del \in DeliveryInputs, pick \in PickupInputs,
        endKm \in EndKmInputs : submitEndDay(r, del, pick, endKm)
  \/ \E idx \in 1..MaxBreaks : startEditingBreak(idx)
  \/ \E s \in TimeInputs(AdminTime), e \in TimeInputs(AdminTime) :
        saveBreakEdit(s, e)
  \/ \E i \in 1..MaxInFlight : BackendHandle(i)
  \/ \E j \in 1..MaxInFlight : Deliver(j)
  \/ \E i \in 1..MaxSessions : adminOpen(i)
  \/ onClose
  \/ \E r \in AdminRouteInputs : handleInputChange("route_number", r)
  \/ \E k \in EndKmInputs : handleInputChange("end_km", k)
  \/ handleSave

SpecAdmin == Init /\ [][NextAdmin]_vars

\* A hurried driver: up to MaxRush clicks are made while a request is
\* under way.  The break buttons and the break editor, with a backend
\* that answers every request.
NextRace ==
  \/ Tick(RaceTime)
  \/ handleStartWork
  \/ submitStartWork(Null)
  \/ handleStartBreak
  \/ handleEndBreak
  \/ \E idx \in 1..MaxBreaks : startEditingBreak(idx)
  \/ cancelEditingBreak
  \/ \E s \in TimeInputs(RaceTime), e \in TimeInputs(RaceTime) :
        saveBreakEdit(s, e)
  \/ \E i \in 1..MaxInFlight : BackendHandle(i)
  \/ \E j \in 1..MaxInFlight : Deliver(j)

SpecRace == InitRace /\ [][NextRace]_vars

\* The start form of the hurried driver, submitted again before the
\* insert has returned or before today's session has been loaded.
NextStart ==
  \/ Tick(MaxTime)
  \/ handleStartWork
  \/ cancelStartForm
  \/ \E startKm \in StartKmInputs : submitStartWork(startKm)
  \/ \E i \in 1..MaxInFlight : BackendHandle(i)
  \/ \E i \in 1..MaxInFlight : BackendFail(i)
  \/ \E j \in 1..MaxInFlight : Deliver(j)

SpecStart == InitRace /\ [][NextStart]_vars

\* The driver who waits for every result works a day, ends it, and visits
\* the other tab of the dashboard.
NextDay ==
  \/ Tick(MaxTime)
  \/ handleStartWork
  \/ \E startKm \in StartKmInputs : submitStartWork(startKm)
  \/ handleEndDay
  \/ \E r \in RouteInputs, del \in DeliveryInputs, pick \in PickupInputs,
        endKm \in EndKmInputs : submitEndDay(r, del, pick, endKm)
  \/ \E i \in 1..MaxInFlight : BackendHandle(i)
  \/ \E j \in 1..MaxInFlight : Deliver(j)
  \/ remount

SpecDay == Init /\ [][NextDay]_vars

\* The session helpers, each called on a session of the input sets.
\* The edit of one bound of one break of the session is submitted to
\* validateBreakTimeEdit; the output keeps the arguments of the call.
callValidateBreakTimeEdit(breakIndex, field, newTime) ==
  /\ calcInput # NoSession
  /\ calcOutput' =
       [of |-> "validateBreakTimeEdit",
        value |-> validateBreakTimeEdit(calcInput.breaks, breakIndex, field,
                                        newTime, calcInput),
        breakIndex |-> breakIndex,
        field |-> field,
        newTime |-> newTime]
  /\ UNCHANGED <<now, sessions, ui, validationErrors, requests, responses,
                 rush, lastRead, before, admin, audit, calcInput>>

NextHelpers ==
  \/ callCalculateTotals
  \/ callCalculateTimeMetrics
  \/ callValidateSession
  \/ \E breakIndex \in 1..MaxBreaks, field \in {"start", "end"},
        newTime \in TimeInputs(MaxTime) :
       callValidateBreakTimeEdit(breakIndex, field, newTime)

SpecHelpers == InitHelpers /\ [][NextHelpers]_vars

\* The audit logger and the user management of an administrator, beside a
\* driver who starts work.
NextAudit ==
  \/ handleStartWork
  \/ submitStartWork(Null)
  \/ \E i \in 1..MaxInFlight : BackendHandle(i)
  \/ \E j \in 1..MaxInFlight : Deliver(j)
  \/ \E sessionId \in 1..MaxSessions, oldValue \in AuditValues,
        newValue \in AuditValues, ok \in BOOLEAN :
        logSessionEdit(sessionId, "route_number", oldValue, newValue, ok)
  \/ \E sessionId \in 1..MaxSessions, changes \in ChangeLists,
        ok \in BOOLEAN : logMultipleSessionEdits(sessionId, changes, ok)
  \/ \E u \in UserIds : createUser(u)
  \/ \E u \in UserIds : deleteUser(u)

SpecAudit == Init /\ [][NextAudit]_vars

\* ------------------------------------------------------------- claims
BreaksOf(session) == IF session = NoSession THEN << >> ELSE session.breaks

OpenBreaks(session) ==
  Cardinality({i \in 1..Len(BreaksOf(session)) :
                 BreaksOf(session)[i].end = Null})

\* C1: the in-memory session and every stored session hold at most one
\* break whose end is absent, in every reachable state, with saves in
\* flight.
C1_AtMostOneOpenBreak ==
  /\ OpenBreaks(currentSession) <= 1
  /\ \A i \in 1..Len(sessions) : OpenBreaks(sessions[i]) <= 1

NoBreakOpen ==
  /\ OpenBreaks(currentSession) = 0
  /\ \A i \in 1..Len(sessions) : OpenBreaks(sessions[i]) = 0

Rejected ==
  /\ status' = status
  /\ currentSession' = currentSession
  /\ requests' = requests

\* C2: a click on Start Break while a break is open, and a click on End
\* Break while no break is open, are rejected: nothing is sent, and the
\* status and the breaks stay what they were.
C2_TransitionGuards ==
  [][ /\ (handleStartBreak /\ OpenBreaks(currentSession) > 0) => Rejected
      /\ (handleEndBreak /\ NoBreakOpen) => Rejected ]_vars

\* C3: the end-of-day submit is taken only from working, so no stored or
\* in-memory session with status ended holds a break whose end is absent.
C3_EndedHasNoOpenBreak ==
  /\ \A i \in 1..Len(sessions) :
       sessions[i].status = "ended" => OpenBreaks(sessions[i]) = 0
  /\ status = "ended" => OpenBreaks(currentSession) = 0

\* C4: ended is terminal for the driver: a stored session whose status is
\* ended is not changed by any step of the driver's component.
C4_EndedIsTerminal ==
  [][ \A i \in 1..Len(sessions) :
        sessions[i].status = "ended" => sessions'[i] = sessions[i] ]_vars

\* C5: the sessions table holds at most one session of the driver and the
\* day whose status is not ended, for every interleaving of the load on
\* mount, the submissions of the start form and their completions.
C5_OneOpenSession ==
  Cardinality({i \in 1..Len(sessions) : sessions[i].status # "ended"}) <= 1

\* C6: no partial mutation on failure.  After a save that validateSession
\* rejected, and after the result of a save that failed in storage has
\* come back, the status and the in-memory session are what they were
\* before the operation.
C6_NoPartialMutation ==
  /\ [](validationErrors # << >> => <<status, currentSession>> = before)
  /\ [][ \A j \in 1..Len(responses) :
           (Deliver(j) /\ ~responses[j].ok)
             => <<status', currentSession'>> = before ]_vars

Writes == {i \in 1..Len(requests) : requests[i].kind # "load"}

Has(errors, kind) == \E k \in 1..Len(errors) : errors[k][1] = kind

GoodReport(session) ==
  /\ session.positive_deliveries >= 0 /\ session.negative_deliveries >= 0
  /\ session.positive_pickups >= 0 /\ session.negative_pickups >= 0
  /\ session.end_km # Null /\ session.start_km # Null
       => session.end_km >= session.start_km

\* C7: validation gates every write.  Every record sent to the sessions
\* table by the driver's component or by the administrator's editor, and
\* every record stored, has an empty validateSession list; in particular
\* no session is stored as ended with an ending odometer below the
\* starting one or with a negative counter.
C7_ValidationGatesWrites ==
  /\ \A i \in Writes : validateSession(requests[i].payload) = << >>
  /\ \A i \in 1..Len(sessions) :
       /\ validateSession(sessions[i]) = << >>
       /\ sessions[i].status = "ended" => GoodReport(sessions[i])

\* A stored session still working after an end-of-day submit rejected for
\* its odometer, and an administrator's save that was refused.
C7_Witness ==
  /\ Len(sessions) = 1
  /\ sessions[1].status = "working"
  /\ showEndDayForm
  /\ Has(validationErrors, "mileage")
  /\ adminErrors # << >>

TotalsCurrent(session) ==
  /\ session.deliveries
       = session.positive_deliveries + session.negative_deliveries
  /\ session.pickups = session.positive_pickups + session.negative_pickups
  /\ session.total_km
       = IF session.end_km # Null /\ session.start_km # Null
         THEN session.end_km - session.start_km
         ELSE Null

\* C8: derived totals are never stale.  Every record sent to the sessions
\* table and every record stored has deliveries and pickups equal to the
\* sums of their signed parts, and total_km equal to end_km - start_km
\* when both readings are present and absent otherwise.
C8_TotalsNeverStale ==
  /\ \A i \in Writes : TotalsCurrent(requests[i].payload)
  /\ \A i \in 1..Len(sessions) : TotalsCurrent(sessions[i])

\* An ended session stored with an odometer difference and with counts.
C8_Witness ==
  \E i \in 1..Len(sessions) :
    /\ sessions[i].status = "ended"
    /\ sessions[i].total_km = 1
    /\ sessions[i].deliveries = 3

Completed(brk) == brk.start # Null /\ brk.end # Null

Chronological(breaks) ==
  \A i \in 1..Len(breaks), j \in 1..Len(breaks) :
    i < j => breaks[i].start <= breaks[j].start

WellFormed(breaks) ==
  \A i \in 1..Len(breaks) :
    Completed(breaks[i]) => breaks[i].end > breaks[i].start

Disjoint(breaks) ==
  \A i \in 1..Len(breaks), j \in 1..Len(breaks) :
    (i < j /\ Completed(breaks[i]) /\ Completed(breaks[j]))
      => (breaks[i].end <= breaks[j].start
          \/ breaks[j].end <= breaks[i].start)

\* C9: every stored break sequence is in chronological order, each
\* completed break ends strictly after it starts, and no two completed
\* breaks overlap, adjacent or not.
C9_BreakSequence ==
  \A i \in 1..Len(sessions) :
    /\ Chronological(sessions[i].breaks)
    /\ WellFormed(sessions[i].breaks)
    /\ Disjoint(sessions[i].breaks)

Within(session, time) ==
  /\ time >= session.start_time
  /\ session.end_time # Null => time <= session.end_time

\* C10: break containment.  In every stored session that has ended each
\* break's start and end lie within [start_time, end_time], and in every
\* stored session still in progress no break starts before start_time.
C10_BreakContainment ==
  \A i \in 1..Len(sessions) :
    \A k \in 1..Len(sessions[i].breaks) :
      LET brk == sessions[i].breaks[k] IN
      IF sessions[i].end_time # Null
      THEN /\ Within(sessions[i], brk.start)
           /\ brk.end # Null => Within(sessions[i], brk.end)
      ELSE brk.start >= sessions[i].start_time

\* The form holds values the validation rules allow: a route number, no
\* negative counter, an ending reading not below the starting one, breaks
\* that end after they start and do not overlap.
FormCount(value) == value = Null \/ value \in 0..MaxCount

ValidEdit ==
  /\ adminSession # NoSession
  /\ formData.route_number # ""
  /\ FormCount(formData.positive_deliveries)
  /\ FormCount(formData.negative_deliveries)
  /\ FormCount(formData.positive_pickups)
  /\ FormCount(formData.negative_pickups)
  /\ \/ formData.end_km = Null
     \/ formData.start_km = Null
     \/ formData.end_km >= formData.start_km
  /\ WellFormed(formData.breaks)
  /\ Disjoint(formData.breaks)

\* An update of the edited row was sent, its status the session's and its
\* totals recomputed.
AdminUpdateSent ==
  /\ Len(requests') = Len(requests) + 1
  /\ LET req == requests'[Len(requests')] IN
     /\ req.kind = "update"
     /\ req.op = "admin"
     /\ req.payload.id = adminSession.id
     /\ req.payload.status = adminSession.status
     /\ TotalsCurrent(req.payload)

\* C11: a save in the administrator's editor whose form holds valid values
\* is accepted: the update of the session is sent to storage, with the
\* status unchanged and the derived totals recomputed.
C11_ValidAdminEditAccepted ==
  [][ (handleSave /\ ValidEdit) => AdminUpdateSent ]_vars

\* The editor is open on a session with route number R1, and the form is
\* as it was loaded except for the route number, now R2.
OnlyRouteEdited ==
  /\ adminSession # NoSession
  /\ adminSession.route_number = "R1"
  /\ formData = [FormOf(adminSession) EXCEPT !.route_number = "R2"]

RouteEntry ==
  [session_id |-> adminSession.id,
   field_name |-> "route_number",
   old_value |-> [null |-> FALSE, text |-> "R1"],
   new_value |-> [null |-> FALSE, text |-> "R2"],
   edited_by |-> "admin"]

\* C12: audit diff.  A save in which only route_number differs from the
\* loaded session (R1 to R2) is sent with changes that make exactly one
\* audit entry: field route_number, old value R1, new value R2.
C12_AuditDiff ==
  [][ (handleSave /\ OnlyRouteEdited)
        => /\ Len(requests') = Len(requests) + 1
           /\ EditRows(adminSession.id, requests'[Len(requests')].changes,
                       "admin") = << RouteEntry >> ]_vars

\* C13: every stored audit entry has an old_value different from its
\* new_value, whatever pair of values the logger was called with.
C13_EntriesDiffer ==
  \A k \in 1..Len(history) : history[k].old_value # history[k].new_value

\* C15: the audit trail is append-only: every step leaves the rows of
\* session_edit_history in place and at most adds rows after them.
C15_AppendOnly ==
  [][ /\ Len(history') >= Len(history)
      /\ SubSeq(history', 1, Len(history)) = history ]_vars

\* C16: the sessions table holds at most one session of the driver for
\* the day, whatever the driver does: ending the day, leaving the tab and
\* coming back, starting work again.
C16_OneSessionPerDay ==
  Len(sessions) <= 1

NonNegative(value) == value = Null \/ value >= 0

Zeroed(value) == IF value = Null THEN 0 ELSE value

\* C17: for counters that are non-negative integers or missing,
\* calculateTotals returns deliveries = positive + negative deliveries and
\* pickups = positive + negative pickups, a missing counter being zero.
C17_TotalsAreSums ==
  (/\ calcOutput.of = "calculateTotals"
   /\ NonNegative(calcInput.positive_deliveries)
   /\ NonNegative(calcInput.negative_deliveries)
   /\ NonNegative(calcInput.positive_pickups)
   /\ NonNegative(calcInput.negative_pickups))
  => /\ calcOutput.value.deliveries
          = Zeroed(calcInput.positive_deliveries)
            + Zeroed(calcInput.negative_deliveries)
     /\ calcOutput.value.pickups
          = Zeroed(calcInput.positive_pickups)
            + Zeroed(calcInput.negative_pickups)

\* calculateTotals has returned for a session with one delivery counter
\* missing and the other 2, and with both pickup counters present.
C17_Witness ==
  /\ calcOutput.of = "calculateTotals"
  /\ calcInput.positive_deliveries = Null
  /\ calcInput.negative_deliveries = 2
  /\ calcInput.positive_pickups = 1
  /\ calcInput.negative_pickups = 1
  /\ calcOutput.value.deliveries = 2
  /\ calcOutput.value.pickups = 2

RECURSIVE CompletedBreakTime(_)
CompletedBreakTime(breaks) ==
  IF breaks = << >> THEN 0
  ELSE (IF Completed(Head(breaks))
        THEN Head(breaks).end - Head(breaks).start
        ELSE 0)
       + CompletedBreakTime(Tail(breaks))

TimeMetricsReference(session) ==
  IF session.start_time = Null \/ session.end_time = Null
  THEN [totalTime |-> 0, breakTime |-> 0, workTime |-> 0]
  ELSE [totalTime |-> session.end_time - session.start_time,
        breakTime |-> CompletedBreakTime(session.breaks),
        workTime |-> session.end_time - session.start_time
                     - CompletedBreakTime(session.breaks)]

\* C19: calculateTimeMetrics returns zeros when start_time or end_time is
\* missing, and otherwise totalTime = end - start, breakTime = the sum of
\* end - start over the breaks that have both bounds (a break missing a
\* bound adds nothing), and workTime = totalTime - breakTime.
C19_TimeMetrics ==
  calcOutput.of = "calculateTimeMetrics"
  => calcOutput.value = TimeMetricsReference(calcInput)

\* The condition of each check of validateSession, on its own.
MileageFails(s) ==
  s.end_km # Null /\ s.start_km # Null /\ s.end_km < s.start_km

DeliveriesFail(s) ==
  Zeroed(s.positive_deliveries) < 0 \/ Zeroed(s.negative_deliveries) < 0

PickupsFail(s) ==
  Zeroed(s.positive_pickups) < 0 \/ Zeroed(s.negative_pickups) < 0

OrderFails(s, k) ==
  Completed(s.breaks[k]) /\ s.breaks[k].end <= s.breaks[k].start

Outside(s, time) ==
  time # Null /\ (time < s.start_time \/ time > s.end_time)

ContainmentFails(s, k) ==
  /\ s.start_time # Null
  /\ s.end_time # Null
  /\ Outside(s, s.breaks[k].start) \/ Outside(s, s.breaks[k].end)

OverlapFails(s, i) ==
  /\ s.breaks[i].end # Null
  /\ s.breaks[i + 1].start # Null
  /\ s.breaks[i].end > s.breaks[i + 1].start

Reported(error) ==
  \E k \in 1..Len(calcOutput.value) : calcOutput.value[k] = error

\* C20: the checks of validateSession are independent and every violation
\* is collected: the list holds the violation of a check exactly when the
\* condition of that check fails, whatever the other checks find.
C20_ChecksIndependent ==
  calcOutput.of = "validateSession"
  => /\ Reported(<<"mileage">>) <=> MileageFails(calcInput)
     /\ Reported(<<"deliveries">>) <=> DeliveriesFail(calcInput)
     /\ Reported(<<"pickups">>) <=> PickupsFail(calcInput)
     /\ \A k \in 1..Len(calcInput.breaks) :
          /\ Reported(<<"order", k>>) <=> OrderFails(calcInput, k)
          /\ Reported(<<"period", k>>) <=> ContainmentFails(calcInput, k)
     /\ \A i \in 1..(Len(calcInput.breaks) - 1) :
          Reported(<<"overlap", i, i + 1>>) <=> OverlapFails(calcInput, i)

C22_ContainmentReported ==
  (calcOutput.of = "validateSession"
   /\ calcInput.start_time # Null
   /\ calcInput.end_time # Null)
  => \A k \in 1..Len(calcInput.breaks) :
       (\E time \in {calcInput.breaks[k].start, calcInput.breaks[k].end} :
          Outside(calcInput, time))
       => Reported(<<"period", k>>)

\* C23: for two consecutive breaks of which the first is completed and ends
\* after the start of the second, validateSession reports an overlap naming
\* both positions; when the first does not end after the start of the
\* second, no overlap is reported for the pair.
C23_AdjacentOverlap ==
  calcOutput.of = "validateSession"
  => \A i \in 1..(Len(calcInput.breaks) - 1) :
       LET currentBreak == calcInput.breaks[i]
           nextBreak == calcInput.breaks[i + 1]
           endsAfter == /\ currentBreak.end # Null
                        /\ nextBreak.start # Null
                        /\ currentBreak.end > nextBreak.start
       IN /\ (Completed(currentBreak) /\ endsAfter)
               => Reported(<<"overlap", i, i + 1>>)
          /\ ~endsAfter => ~Reported(<<"overlap", i, i + 1>>)

\* validateSession has reported the overlap of breaks 1 and 2 for a
\* session whose first break is completed and ends after the start of the
\* second.
C23_Witness ==
  /\ calcOutput.of = "validateSession"
  /\ Len(calcInput.breaks) = 2
  /\ Completed(calcInput.breaks[1])
  /\ calcInput.breaks[2].start # Null
  /\ calcInput.breaks[1].end > calcInput.breaks[2].start
  /\ Reported(<<"overlap", 1, 2>>)

\* The edit that validateBreakTimeEdit has just judged: the break as
\* edited, and the instant the edited bound now holds.
EditJudged ==
  /\ calcOutput.of = "validateBreakTimeEdit"
  /\ calcOutput.newTime # Null
  /\ calcOutput.breakIndex \in 1..Len(calcInput.breaks)

JudgedBreak ==
  EditedBreak(calcInput.breaks, calcOutput.breakIndex, calcOutput.field,
              calcOutput.newTime)

JudgedBound ==
  IF calcOutput.field = "start" THEN JudgedBreak.start ELSE JudgedBreak.end

\* C24: validateBreakTimeEdit rejects every edit of a break of a session
\* with both timestamps in which the edited bound falls before start_time
\* or after end_time.
C24_EditWithinPeriod ==
  (EditJudged
   /\ calcInput.start_time # Null
   /\ calcInput.end_time # Null
   /\ (JudgedBound < calcInput.start_time
       \/ JudgedBound > calcInput.end_time))
  => ~calcOutput.value.isValid

\* validateBreakTimeEdit has refused, for the work period alone, an edit
\* that leaves the break ordered and puts its end after end_time.
C24_Witness ==
  /\ EditJudged
  /\ calcInput.end_time # Null
  /\ calcOutput.field = "end"
  /\ JudgedBreak.start # Null
  /\ JudgedBreak.start < JudgedBreak.end
  /\ JudgedBound > calcInput.end_time
  /\ calcOutput.value = [isValid |-> FALSE, error |-> <<"period">>]

\* The other completed breaks that the judged break overlaps.
JudgedConflicts ==
  {i \in 1..Len(calcInput.breaks) :
     /\ i # calcOutput.breakIndex
     /\ Completed(calcInput.breaks[i])
     /\ JudgedBreak.start < calcInput.breaks[i].end
     /\ JudgedBreak.end > calcInput.breaks[i].start}

\* C25: validateBreakTimeEdit compares the edited break with every other
\* break: an edited break that is ordered and within the work period is
\* rejected exactly when some other completed break overlaps it, and the
\* error then names the position of a break in conflict.
C25_EditOverlapAllBreaks ==
  (EditJudged
   /\ Completed(JudgedBreak)
   /\ JudgedBreak.start < JudgedBreak.end
   /\ ~ContainmentFails([calcInput EXCEPT !.breaks = <<JudgedBreak>>], 1))
  => /\ ~calcOutput.value.isValid <=> JudgedConflicts # {}
     /\ JudgedConflicts # {}
          => \E i \in JudgedConflicts :
               calcOutput.value.error = <<"overlap", i>>

\* validateBreakTimeEdit has refused the edit of the third of three breaks
\* because of the first one, the second being clear of it.
C25_Witness ==
  /\ EditJudged
  /\ calcOutput.breakIndex = 3
  /\ Completed(JudgedBreak)
  /\ JudgedBreak.start < JudgedBreak.end
  /\ JudgedConflicts = {1}
  /\ calcOutput.value = [isValid |-> FALSE, error |-> <<"overlap", 1>>]

\* The interval the driver types for the break under edit is ordered, lies
\* within the work period as far as it is known, and is clear of every
\* other break, all of them completed.
GoodInterval(editBreakStart, editBreakEnd) ==
  LET newStart == timeInputToISO(editBreakStart)
      newEnd == timeInputToISO(editBreakEnd)
  IN /\ editBreakStart # Null
     /\ editBreakEnd # Null
     /\ newStart < newEnd
     /\ currentSession.start_time <= newStart
     /\ currentSession.end_time # Null => newEnd <= currentSession.end_time
     /\ \A i \in 1..Len(currentSession.breaks) :
          i # editingBreak
          => /\ Completed(currentSession.breaks[i])
             /\ \/ newEnd <= currentSession.breaks[i].start
                \/ currentSession.breaks[i].end <= newStart

\* C26: the driver's edit of both bounds of a completed break is accepted
\* and sent for saving whenever the new interval is ordered, within the
\* work period and clear of the other breaks, wherever it lies with
\* respect to the old start and end of the break.
C26_AnyValidIntervalAccepted ==
  [][ \A editBreakStart \in TimeInputs(MaxTime),
         editBreakEnd \in TimeInputs(MaxTime) :
        (/\ saveBreakEdit(editBreakStart, editBreakEnd)
         /\ Completed(currentSession.breaks[editingBreak])
         /\ GoodInterval(editBreakStart, editBreakEnd))
        => \E k \in 1..Len(requests') :
             /\ requests'[k].kind = "update"
             /\ requests'[k].payload.breaks[editingBreak]
                  = [start |-> timeInputToISO(editBreakStart),
                     end |-> timeInputToISO(editBreakEnd)] ]_vars

Overlapping(b, c) ==
  /\ Completed(b)
  /\ Completed(c)
  /\ b.start < c.end
  /\ b.end > c.start

\* C28: the adjacent-pair check of validateSession agrees with the
\* pairwise test of validateBreakTimeEdit: in a break sequence that
\* validateSession accepts no two breaks with both bounds overlap, also
\* when breaks lacking a bound stand between them.
C28_AcceptedSequencesDisjoint ==
  (calcOutput.of = "validateSession" /\ calcOutput.value = << >>)
  => \A i \in 1..Len(calcInput.breaks), j \in 1..Len(calcInput.breaks) :
       i < j => ~Overlapping(calcInput.breaks[i], calcInput.breaks[j])

\* C29: in every stored session the status and the break data agree: the
\* status is on-break exactly when some break has no end, and end_time is
\* present exactly when the status is ended.
C29_StatusMatchesBreaks ==
  \A i \in 1..Len(sessions) :
    /\ sessions[i].status = "on-break" <=> OpenBreaks(sessions[i]) > 0
    /\ sessions[i].end_time # Null <=> sessions[i].status = "ended"

\* C30: for a session that validateSession accepts, with both timestamps
\* and end_time after start_time, calculateTimeMetrics yields a work time
\* that is not negative and a break time that does not exceed the total.
C30_MetricsWithinTotal ==
  (/\ calcOutput.of = "calculateTimeMetrics"
   /\ validateSession(calcInput) = << >>
   /\ calcInput.start_time # Null
   /\ calcInput.end_time # Null
   /\ calcInput.end_time > calcInput.start_time)
  => /\ calcOutput.value.workTime >= 0
     /\ calcOutput.value.breakTime <= calcOutput.value.totalTime

====
